---------------------------- MODULE Spec2Model ----------------------------
(***************************************************************************)
(* A model of the CREATE TABLE pipeline of codegen_sql:                    *)
(*   Lexer::run (src/src/lexer.rs), Parser::run (src/src/parser.rs) and    *)
(*   Interpreter::run (src/src/interpreter.rs).                            *)
(*                                                                         *)
(* A byte is a one-character string; a text is a sequence of bytes.  The   *)
(* model covers ASCII input only.  Positions are 0-based as in the Rust    *)
(* code; At(input, p) is input[p].                                         *)
(***************************************************************************)
EXTENDS Naturals, Sequences, FiniteSets, TLC

VARIABLES
    input,        \* Lexer::run: the bytes of the source text
    pos,          \* Lexer::run: the cursor `pos`
    tokens,       \* Lexer::run: the vector `tokens`; then Parser::run's argument
    starts,       \* history: starts[i] is the cursor at which tokens[i] was emitted
    lexed,        \* the value Lexer::run returned (NotRun while it runs)
    parsed,       \* the value Parser::run returned (NotRun before it ran)
    table,        \* the value Interpreter::run returned (NotRun before it ran)
    stmt,         \* the statement the input text was written from (None for other inputs)
    pc            \* "lex", "parse", "interp" or "done"

vars == <<input, pos, tokens, starts, lexed, parsed, table, stmt, pc>>

-----------------------------------------------------------------------------
(* Bounds of the model. *)

\* inputs over SmallAlphabet are enumerated up to this length
MaxLen == 3
\* statements and token sentences have at most this many columns
MaxCols == 2
\* token sequences over the whole token alphabet are enumerated up to this length
MaxShort == 2

-----------------------------------------------------------------------------
(* Bytes and texts. *)

None == <<>>
Some(x) == <<x>>

LowerAlpha == <<"a","b","c","d","e","f","g","h","i","j","k","l","m",
                "n","o","p","q","r","s","t","u","v","w","x","y","z">>
UpperAlpha == <<"A","B","C","D","E","F","G","H","I","J","K","L","M",
                "N","O","P","Q","R","S","T","U","V","W","X","Y","Z">>
Digits == {"0","1","2","3","4","5","6","7","8","9"}
Letters == {LowerAlpha[k] : k \in 1..26} \cup {UpperAlpha[k] : k \in 1..26}

ToLower(c) ==
    IF \E k \in 1..26 : UpperAlpha[k] = c
    THEN LowerAlpha[CHOOSE k \in 1..26 : UpperAlpha[k] = c]
    ELSE c

ToUpper(c) ==
    IF \E k \in 1..26 : LowerAlpha[k] = c
    THEN UpperAlpha[CHOOSE k \in 1..26 : LowerAlpha[k] = c]
    ELSE c

LowerText(s) == [k \in 1..Len(s) |-> ToLower(s[k])]

\* input[p] with the 0-based index of the code
At(s, p) == s[p + 1]
\* input[from..to] (to exclusive), 0-based
Slice(s, from, to) == SubSeq(s, from + 1, to)

-----------------------------------------------------------------------------
(* lexer.rs: tokens. *)

Tok(t) == [type |-> t, text |-> <<>>]
CreateTable == Tok("CreateTable")
Int == Tok("Int")
Varchar == Tok("Varchar")
Json == Tok("Json")
Date == Tok("Date")
NotNull == Tok("NotNull")
LParen == Tok("LParen")
RParen == Tok("RParen")
Comma == Tok("Comma")
Semicolon == Tok("Semicolon")
Text(s) == [type |-> "Text", text |-> s]

MatchResult(t, s, e) == [token |-> t, start |-> s, end |-> e]

-----------------------------------------------------------------------------
(* lexer.rs: RegexMatcher.  A pattern ^(?i)word(opt)? is the record        *)
(* [word, opt, token], word and opt in lower case.                         *)

RegexTable ==
    << [word |-> <<"c","r","e","a","t","e"," ","t","a","b","l","e">>,
        opt |-> <<>>, token |-> CreateTable],
       [word |-> <<"i","n","t">>, opt |-> <<"e","g","e","r">>, token |-> Int],
       [word |-> <<"j","s","o","n">>, opt |-> <<>>, token |-> Json],
       [word |-> <<"v","a","r","c","h","a","r">>, opt |-> <<>>, token |-> Varchar],
       [word |-> <<"d","a","t","e">>, opt |-> <<>>, token |-> Date],
       [word |-> <<"n","o","t"," ","n","u","l","l">>, opt |-> <<>>, token |-> NotNull] >>

\* a matcher without the (?i) flag: the bytes must be equal
CharMatches_CaseSensitive(c, p) == c = p

\* (?i): a byte of the target matches a pattern byte when they agree up to case
CharMatches(c, p) == ToLower(c) = p

\* whether word is, up to case, a prefix of target
PrefixMatches(target, word) ==
    /\ Len(word) <= Len(target)
    /\ \A k \in 1..Len(word) : CharMatches(target[k], word[k])

\* Regex::find(target) for an anchored pattern: m.end(), or 0 for no match.
\* The optional group is greedy.
RegexFind(re, target) ==
    IF ~PrefixMatches(target, re.word) THEN 0
    ELSE IF re.opt # <<>> /\ PrefixMatches(target, re.word \o re.opt)
         THEN Len(re.word) + Len(re.opt)
         ELSE Len(re.word)

RegexMatcher_exec(in, position) ==
    LET target == Slice(in, position, Len(in))
        hits == {k \in 1..Len(RegexTable) : RegexFind(RegexTable[k], target) > 0}
    IN  IF hits = {} THEN None
        ELSE LET k == CHOOSE k \in hits : \A j \in hits : k <= j
             IN  Some(MatchResult(RegexTable[k].token, position,
                                  position + RegexFind(RegexTable[k], target) - 1))

-----------------------------------------------------------------------------
(* lexer.rs: SymbolMatcher and TextMatcher. *)

SymbolTable ==
    << [symbol |-> "(", token |-> LParen],
       [symbol |-> ")", token |-> RParen],
       [symbol |-> ";", token |-> Semicolon] >>

SymbolMatcher_exec(in, position) ==
    LET hits == {k \in 1..Len(SymbolTable) : At(in, position) = SymbolTable[k].symbol}
    IN  IF hits = {} THEN None
        ELSE LET k == CHOOSE k \in hits : \A j \in hits : k <= j
             IN  Some(MatchResult(SymbolTable[k].token, position, position))

is_ascii_alphanumeric(c) == c \in Letters \cup Digits

text_is_valid(c) == c # "," /\ (is_ascii_alphanumeric(c) \/ c = "_")

\* the while loop of TextMatcher::exec: the first position at or after p that
\* is the end of the input or holds a byte that is not valid text
RECURSIVE TextScan(_, _)
TextScan(in, p) ==
    IF p < Len(in) /\ text_is_valid(At(in, p)) THEN TextScan(in, p + 1) ELSE p

\* MatchResult.end of a text match, from the position the scan stopped at
TextEnd(new_position) == new_position

TextMatcher_exec(in, position) ==
    LET new_position == TextScan(in, position)
    IN  IF position # new_position
        THEN Some(MatchResult(Text(Slice(in, position, new_position)),
                              position, TextEnd(new_position)))
        ELSE None

-----------------------------------------------------------------------------
(* lexer.rs: Lexer. *)

InvalidError(byte) == [kind |-> "Err", error |-> "InvalidError", byte |-> byte]
LexOk(toks) == [kind |-> "Ok", tokens |-> toks]
Panic == [kind |-> "Panic"]
\* the value of a stage that has not returned
NotRun == [kind |-> "None"]

\* Lexer::check: the first matcher that succeeds, in the order of Lexer::new
Lexer_check(in, position) ==
    LET r == RegexMatcher_exec(in, position)
        s == SymbolMatcher_exec(in, position)
        t == TextMatcher_exec(in, position)
    IN  IF r # None THEN [kind |-> "Ok", result |-> r[1]]
        ELSE IF s # None THEN [kind |-> "Ok", result |-> s[1]]
        ELSE IF t # None THEN [kind |-> "Ok", result |-> t[1]]
        ELSE InvalidError(At(in, position))

Whitespace == {" ", "\n", "\t"}

RECURSIVE skip_space(_, _)
skip_space(in, position) ==
    IF position < Len(in) /\ At(in, position) \in Whitespace
    THEN skip_space(in, position + 1)
    ELSE position

\* Lexer::run, the arm for a whitespace byte
LexSpace ==
    /\ pc = "lex"
    /\ pos < Len(input)
    /\ At(input, pos) \in Whitespace
    /\ pos' = skip_space(input, pos)
    /\ UNCHANGED <<input, tokens, starts, lexed, parsed, table, stmt, pc>>

\* Lexer::run, the arm for b','
LexComma ==
    /\ pc = "lex"
    /\ pos < Len(input)
    /\ At(input, pos) = ","
    /\ tokens' = Append(tokens, Comma)
    /\ starts' = Append(starts, pos)
    /\ pos' = pos + 1
    /\ UNCHANGED <<input, lexed, parsed, table, stmt, pc>>

\* Lexer::run, the default arm: self.check(input, pos)? and the push
LexCheck ==
    /\ pc = "lex"
    /\ pos < Len(input)
    /\ At(input, pos) \notin Whitespace \cup {","}
    /\ LET r == Lexer_check(input, pos)
       IN  IF r.kind = "Ok"
           THEN /\ tokens' = Append(tokens, r.result.token)
                /\ starts' = Append(starts, pos)
                /\ pos' = r.result.end + 1
                /\ UNCHANGED <<lexed, pc>>
           ELSE /\ lexed' = r
                /\ pc' = "done"
                /\ UNCHANGED <<tokens, starts, pos>>
    /\ UNCHANGED <<input, parsed, table, stmt>>

\* Lexer::run after the loop: the read of input[pos - 2], then Ok(tokens).
\* pos - 2 underflows for pos < 2: a panic in a debug build, and in a release
\* build an index beyond the input, which panics as well.
LexFinish ==
    /\ pc = "lex"
    /\ pos >= Len(input)
    /\ IF pos < 2 \/ pos - 2 >= Len(input)
       THEN lexed' = Panic /\ pc' = "done"
       ELSE lexed' = LexOk(tokens) /\ pc' = "parse"
    /\ UNCHANGED <<input, pos, tokens, starts, parsed, table, stmt>>

-----------------------------------------------------------------------------
(* parser.rs: the AST and the errors. *)

ColumnType_Int == "ColumnType::Int"
ColumnType_Json == "ColumnType::Json"
ColumnType_Varchar == "ColumnType::Varchar"
ColumnType_Date == "ColumnType::Date"

Expr2(name, column_type, null) ==
    [node |-> "Expr2", name |-> name, column_type |-> column_type, null |-> null]
Expr1(expr2, expr1) == [node |-> "Expr1", expr2 |-> expr2, expr1 |-> expr1]
Expr(table_name, expr1) == [node |-> "Expr", table_name |-> table_name, expr1 |-> expr1]

UnexpectedToken(token) == [kind |-> "Err", error |-> "UnexpectedToken", token |-> token]
Eof == [kind |-> "Err", error |-> "Eof"]

\* tokens.next() / tokens.peek() with i - 1 tokens consumed
NextToken(toks, i) == IF i <= Len(toks) THEN Some(toks[i]) ELSE None

\* the results of the parse functions: the value and the index of the next
\* unconsumed token
ParseOk(value, next) == [kind |-> "Ok", value |-> value, next |-> next]

parse_token(toks, i, target) ==
    LET token == NextToken(toks, i)
    IN  IF token = None THEN Eof
        ELSE IF token[1] = target THEN ParseOk(TRUE, i + 1)
        ELSE UnexpectedToken(token[1])

parse_text(token) ==
    IF token = None THEN Eof
    ELSE IF token[1].type = "Text" THEN [kind |-> "Ok", value |-> token[1].text]
    ELSE UnexpectedToken(token[1])

parse_column_type(token) ==
    IF token = None THEN Eof
    ELSE IF token[1] = Int THEN [kind |-> "Ok", value |-> ColumnType_Int]
    ELSE IF token[1] = Json THEN [kind |-> "Ok", value |-> ColumnType_Json]
    ELSE IF token[1] = Varchar THEN [kind |-> "Ok", value |-> ColumnType_Varchar]
    ELSE IF token[1] = Date THEN [kind |-> "Ok", value |-> ColumnType_Date]
    ELSE UnexpectedToken(token[1])

\* a match whose NotNull arm consumes the token and leaves `null` true
PeekNotNull_AlwaysNullable(next_token) ==
    IF next_token = Some(NotNull)
    THEN [null |-> TRUE, consumed |-> 1]
    ELSE [null |-> TRUE, consumed |-> 0]

\* parse_expr2, the match on tokens.peek(): the value of `null` and the
\* number of tokens the arm consumes
PeekNotNull(next_token) ==
    IF next_token = Some(NotNull)
    THEN [null |-> FALSE, consumed |-> 1]
    ELSE [null |-> TRUE, consumed |-> 0]

\* parse_expr2, the comma check: comma.unwrap() panics on None
CommaCheck(comma) ==
    IF comma = Some(Comma) THEN [kind |-> "Ok"]
    ELSE IF comma = None THEN Panic
    ELSE UnexpectedToken(comma[1])

parse_expr2(toks, i) ==
    LET name == parse_text(NextToken(toks, i))
        column_type == parse_column_type(NextToken(toks, i + 1))
        peeked == PeekNotNull(NextToken(toks, i + 2))
        j == i + 2 + peeked.consumed
        comma == CommaCheck(NextToken(toks, j))
    IN  IF name.kind # "Ok" THEN name
        ELSE IF column_type.kind # "Ok" THEN column_type
        ELSE IF comma.kind # "Ok" THEN comma
        ELSE ParseOk(Expr2(name.value, column_type.value, peeked.null), j + 1)

RECURSIVE parse_expr1(_, _)
parse_expr1(toks, i) ==
    LET expr2 == parse_expr2(toks, i)
    IN  IF expr2.kind # "Ok" THEN expr2
        ELSE LET peek == NextToken(toks, expr2.next)
             IN  IF peek # None /\ peek[1].type = "Text"
                 THEN LET expr1 == parse_expr1(toks, expr2.next)
                      IN  IF expr1.kind # "Ok" THEN expr1
                          ELSE ParseOk(Expr1(expr2.value, Some(expr1.value)), expr1.next)
                 ELSE ParseOk(Expr1(expr2.value, None), expr2.next)

\* after the statement's last token: Ok without a look at what follows
StatementEnd(toks, next, ast) == ParseOk(ast, next)

parse_expr(toks, i) ==
    LET create == parse_token(toks, i, CreateTable)
        table_name == parse_text(NextToken(toks, i + 1))
        lparen == parse_token(toks, i + 2, LParen)
        expr1 == parse_expr1(toks, i + 3)
    IN  IF create.kind # "Ok" THEN create
        ELSE IF table_name.kind # "Ok" THEN table_name
        ELSE IF lparen.kind # "Ok" THEN lparen
        ELSE IF expr1.kind # "Ok" THEN expr1
        ELSE LET rparen == parse_token(toks, expr1.next, RParen)
                 semicolon == parse_token(toks, expr1.next + 1, Semicolon)
             IN  IF rparen.kind # "Ok" THEN rparen
                 ELSE IF semicolon.kind # "Ok" THEN semicolon
                 ELSE StatementEnd(toks, semicolon.next,
                                   Expr(table_name.value, expr1.value))

Parser_run(toks) ==
    LET r == parse_expr(toks, 1)
    IN  IF r.kind = "Ok" THEN [kind |-> "Ok", ast |-> r.value] ELSE r

-----------------------------------------------------------------------------
(* interpreter.rs *)

Field(name, field_type) == [name |-> name, field_type |-> field_type]

\* format!("{:?}", column_type): the derived Debug of ColumnType
DebugColumnType(column_type) ==
    CASE column_type = ColumnType_Int -> <<"I","n","t">>
      [] column_type = ColumnType_Json -> <<"J","s","o","n">>
      [] column_type = ColumnType_Varchar -> <<"V","a","r","c","h","a","r">>
      [] column_type = ColumnType_Date -> <<"D","a","t","e">>

TableStructBuilder_new == [name |-> <<>>, fields |-> <<>>]

RECURSIVE Interpreter_eval(_, _)
Interpreter_eval(ast, builder) ==
    CASE ast.node = "Expr" ->
           Interpreter_eval(ast.expr1, [builder EXCEPT !.name = ast.table_name])
      [] ast.node = "Expr1" ->
           LET b == Interpreter_eval(ast.expr2, builder)
           IN  IF ast.expr1 # None THEN Interpreter_eval(ast.expr1[1], b) ELSE b
      [] ast.node = "Expr2" ->
           [builder EXCEPT !.fields =
               Append(@, Field(ast.name, DebugColumnType(ast.column_type)))]

Interpreter_run(ast) == Interpreter_eval(ast, TableStructBuilder_new)

\* main: parser.run(tokens)
ParseRun ==
    /\ pc = "parse"
    /\ parsed' = Parser_run(tokens)
    /\ pc' = IF parsed'.kind = "Ok" THEN "interp" ELSE "done"
    /\ UNCHANGED <<input, pos, tokens, starts, lexed, table, stmt>>

\* main: interpreter.run(ast)
InterpRun ==
    /\ pc = "interp"
    /\ table' = Interpreter_run(parsed.ast)
    /\ pc' = "done"
    /\ UNCHANGED <<input, pos, tokens, starts, lexed, parsed, stmt>>

-----------------------------------------------------------------------------
(* The inputs the behaviours start from. *)

RECURSIVE Concat(_)
Concat(ss) == IF ss = <<>> THEN <<>> ELSE Head(ss) \o Concat(Tail(ss))

\* every sequence over S of length at most n
SeqsUpTo(S, n) == UNION {[1..k -> S] : k \in 0..n}

\* 1. every text over a small alphabet, up to MaxLen bytes
SmallAlphabet == {"a", "_", "1", ",", "(", ")", ";", " ", "\n", "@"}
ShortInputs == SeqsUpTo(SmallAlphabet, MaxLen)

\* 2. every upper/lower-case spelling of every keyword phrase, with
\*    whitespace around it
KeywordPhrases ==
    {RegexTable[k].word : k \in 1..Len(RegexTable)} \cup {<<"i","n","t","e","g","e","r">>}

Spellings(word) ==
    {[k \in 1..Len(word) |-> IF up[k] THEN ToUpper(word[k]) ELSE word[k]] :
        up \in [1..Len(word) -> BOOLEAN]}

LeadPads == {<<>>, <<"\n", "\t">>}
TrailPads == {<<>>, <<" ">>, <<"\t", "\n", " ">>}

KeywordInputs ==
    UNION {{pre \o w \o post : pre \in LeadPads, post \in TrailPads} :
              w \in UNION {Spellings(p) : p \in KeywordPhrases}}

\* 3. runs of identifier bytes that begin with, contain or resemble keywords
Words ==
    { <<"i","n","t","e","r","v","a","l">>,
      <<"d","a","t","e","_","c","r","e","a","t","e","d">>,
      <<"j","s","o","n","_","d","a","t","a">>,
      <<"i","n","t","e","g","e","r","_","i","d">>,
      <<"I","n","t","e","g">>,
      <<"V","A","R","C","H","A","R","2">>,
      <<"c","r","e","a","t","e">>,
      <<"n","o","t">>,
      <<"N","u","l","l">>,
      <<"u","p","d","a","t","e">>,
      <<"i","d">>,
      <<"x","_","1">>,
      <<"_","i","n","t">> }

WordInputs ==
    UNION {{pre \o w \o post : pre \in LeadPads, post \in TrailPads} : w \in Words}

\* 4. statements of the grammar, written out under a layout
TableNames == { <<"t">>, <<"u","s","e","r","s">> }

Column(name, keyword, type, notnull) ==
    [name |-> name, keyword |-> keyword, type |-> type, notnull |-> notnull]

Columns ==
    { Column(<<"i","d">>, <<"I","N","T">>, ColumnType_Int, TRUE),
      Column(<<"n","a","m","e">>, <<"V","A","R","C","H","A","R">>, ColumnType_Varchar, FALSE),
      Column(<<"x">>, <<"j","s","o","n">>, ColumnType_Json, FALSE),
      Column(<<"d","1">>, <<"D","a","t","e">>, ColumnType_Date, TRUE),
      Column(<<"n","_","2">>, <<"i","n","t","e","g","e","r">>, ColumnType_Int, FALSE) }

\* a layout: the keyword spellings and the whitespace between the tokens
Layouts ==
    { \* as the statements of the documentation are written
      [id |-> "scenario",
       create |-> <<"C","R","E","A","T","E"," ","T","A","B","L","E">>,
       notnull |-> <<"N","O","T"," ","N","U","L","L">>,
       lead |-> <<>>, word |-> <<" ">>, beforeLParen |-> <<" ">>, afterLParen |-> <<>>,
       beforeComma |-> <<>>, betweenColumns |-> <<" ">>, beforeRParen |-> <<>>,
       beforeSemicolon |-> <<>>, trail |-> <<>>],
      \* no whitespace next to a symbol
      [id |-> "tight",
       create |-> <<"c","r","e","a","t","e"," ","t","a","b","l","e">>,
       notnull |-> <<"n","o","t"," ","n","u","l","l">>,
       lead |-> <<>>, word |-> <<" ">>, beforeLParen |-> <<>>, afterLParen |-> <<>>,
       beforeComma |-> <<>>, betweenColumns |-> <<>>, beforeRParen |-> <<>>,
       beforeSemicolon |-> <<>>, trail |-> <<>>],
      \* one space between any two tokens
      [id |-> "spaced",
       create |-> <<"C","r","e","a","t","e"," ","T","a","b","l","e">>,
       notnull |-> <<"N","o","t"," ","N","u","l","l">>,
       lead |-> <<>>, word |-> <<" ">>, beforeLParen |-> <<" ">>, afterLParen |-> <<" ">>,
       beforeComma |-> <<" ">>, betweenColumns |-> <<" ">>, beforeRParen |-> <<" ">>,
       beforeSemicolon |-> <<" ">>, trail |-> <<>>],
      \* lines and tabs between the tokens
      [id |-> "wide",
       create |-> <<"C","R","E","A","T","E"," ","t","a","b","l","e">>,
       notnull |-> <<"n","o","t"," ","N","U","L","L">>,
       lead |-> <<"\n">>, word |-> <<"\t", " ">>, beforeLParen |-> <<"\n">>,
       afterLParen |-> <<"\n", "\t">>, beforeComma |-> <<" ">>,
       betweenColumns |-> <<"\n", "\t">>, beforeRParen |-> <<"\n">>,
       beforeSemicolon |-> <<"\t">>, trail |-> <<"\n">>] }

Statements ==
    {[name |-> n, cols |-> cs, layout |-> l] :
        n \in TableNames,
        cs \in UNION {[1..k -> Columns] : k \in 1..MaxCols},
        l \in Layouts}

RenderColumn(c, l) ==
    c.name \o l.word \o c.keyword
      \o (IF c.notnull THEN l.word \o l.notnull ELSE <<>>)
      \o l.beforeComma \o <<",">>

RECURSIVE RenderColumns(_, _)
RenderColumns(cs, l) ==
    IF Len(cs) = 1 THEN RenderColumn(cs[1], l)
    ELSE RenderColumn(cs[1], l) \o l.betweenColumns \o RenderColumns(Tail(cs), l)

Render(d) ==
    LET l == d.layout
    IN  l.lead \o l.create \o l.word \o d.name \o l.beforeLParen \o <<"(">>
          \o l.afterLParen \o RenderColumns(d.cols, l) \o l.beforeRParen \o <<")">>
          \o l.beforeSemicolon \o <<";">> \o l.trail

Init ==
    /\ \/ /\ input \in ShortInputs \cup KeywordInputs \cup WordInputs
          /\ stmt = None
       \/ \E d \in Statements : input = Render(d) /\ stmt = Some(d)
    /\ pos = 0
    /\ tokens = <<>>
    /\ starts = <<>>
    /\ lexed = NotRun
    /\ parsed = NotRun
    /\ table = NotRun
    /\ pc = "lex"

Next == LexSpace \/ LexComma \/ LexCheck \/ LexFinish \/ ParseRun \/ InterpRun

Spec == Init /\ [][Next]_vars

-----------------------------------------------------------------------------
(* The token sequences Parser::run is checked on: the sentences of the     *)
(* grammar with up to MaxCols columns, every sequence one edit away from   *)
(* one of them, and every short sequence.                                  *)

TokenAlphabet ==
    {CreateTable, Int, Varchar, Json, Date, NotNull, LParen, RParen, Comma,
     Semicolon, Text(<<"a">>)}

KeywordToken(type) ==
    CASE type = ColumnType_Int -> Int
      [] type = ColumnType_Json -> Json
      [] type = ColumnType_Varchar -> Varchar
      [] type = ColumnType_Date -> Date

ColumnTokens(c) ==
    <<Text(c.name), KeywordToken(c.type)>>
      \o (IF c.notnull THEN <<NotNull>> ELSE <<>>) \o <<Comma>>

Sentence(name, cs) ==
    <<CreateTable, Text(name), LParen>>
      \o Concat([k \in 1..Len(cs) |-> ColumnTokens(cs[k])])
      \o <<RParen, Semicolon>>

\* one column per type, two of them NOT NULL
SentenceColumns == {c \in Columns : c.keyword # <<"i","n","t","e","g","e","r">>}

Sentences ==
    {Sentence(<<"t">>, cs) : cs \in UNION {[1..k -> SentenceColumns] : k \in 1..MaxCols}}

Edits(s) ==
    {s}
      \cup {SubSeq(s, 1, k) : k \in 0..Len(s)}
      \cup {SubSeq(s, 1, k - 1) \o SubSeq(s, k + 1, Len(s)) : k \in 1..Len(s)}
      \cup {SubSeq(s, 1, k - 1) \o <<t>> \o SubSeq(s, k + 1, Len(s)) :
               k \in 1..Len(s), t \in TokenAlphabet}
      \cup {SubSeq(s, 1, k) \o <<t>> \o SubSeq(s, k + 1, Len(s)) :
               k \in 0..Len(s), t \in TokenAlphabet}

TokenSequences ==
    SeqsUpTo(TokenAlphabet, MaxShort) \cup UNION {Edits(s) : s \in Sentences}

InitParse ==
    /\ tokens \in TokenSequences
    /\ input = <<>>
    /\ pos = 0
    /\ starts = <<>>
    /\ lexed = LexOk(tokens)
    /\ parsed = NotRun
    /\ table = NotRun
    /\ stmt = None
    /\ pc = "parse"

NextParse == ParseRun \/ InterpRun

SpecParse == InitParse /\ [][NextParse]_vars

-----------------------------------------------------------------------------
(* What the properties are stated with: the grammar of spec.md 4.2 as      *)
(* an automaton, and readings of the input text.                           *)

IsTypeToken(t) == t \in {Int, Json, Varchar, Date}

\* The grammar position after each token: "create" (nothing read), "name",
\* "lparen", "column" (a column name is required), "type", "afterType"
\* (NotNull or Comma), "comma", "more" (a column name or RParen),
\* "semicolon", "end" (the statement is complete), "reject".
GrammarStep(q, t) ==
    CASE q = "create" -> IF t = CreateTable THEN "name" ELSE "reject"
      [] q = "name" -> IF t.type = "Text" THEN "lparen" ELSE "reject"
      [] q = "lparen" -> IF t = LParen THEN "column" ELSE "reject"
      [] q = "column" -> IF t.type = "Text" THEN "type" ELSE "reject"
      [] q = "type" -> IF IsTypeToken(t) THEN "afterType" ELSE "reject"
      [] q = "afterType" ->
           IF t = NotNull THEN "comma" ELSE IF t = Comma THEN "more" ELSE "reject"
      [] q = "comma" -> IF t = Comma THEN "more" ELSE "reject"
      [] q = "more" ->
           IF t.type = "Text" THEN "type" ELSE IF t = RParen THEN "semicolon" ELSE "reject"
      [] q = "semicolon" -> IF t = Semicolon THEN "end" ELSE "reject"
      [] OTHER -> "reject"

\* the grammar position after the first k tokens of toks
RECURSIVE GrammarState(_, _)
GrammarState(toks, k) ==
    IF k = 0 THEN "create" ELSE GrammarStep(GrammarState(toks, k - 1), toks[k])

IsSentence(toks) == GrammarState(toks, Len(toks)) = "end"

\* the longest prefix of toks that begins a sentence
ViableLength(toks) ==
    CHOOSE k \in 0..Len(toks) :
        /\ GrammarState(toks, k) # "reject"
        /\ k < Len(toks) => GrammarState(toks, k + 1) = "reject"

\* toks holds a column declaration (name, type, optional NotNull) that no
\* Comma follows
LacksComma(toks) ==
    \E k \in 1..Len(toks) :
        \/ /\ GrammarState(toks, k) = "afterType"
           /\ k < Len(toks) => toks[k + 1] \notin {NotNull, Comma}
        \/ /\ GrammarState(toks, k) = "comma"
           /\ k < Len(toks) => toks[k + 1] # Comma

\* the column nodes of an AST, first to last
RECURSIVE Expr1Columns(_)
Expr1Columns(e) ==
    <<e.expr2>> \o (IF e.expr1 = None THEN <<>> ELSE Expr1Columns(e.expr1[1]))

AstColumns(ast) == Expr1Columns(ast.expr1)

\* the indexes in toks of the type tokens of the column declarations
TypeIndexes(toks) == {k \in 1..Len(toks) : GrammarState(toks, k) = "afterType"}

\* the index of the i-th column's type token
RECURSIVE NthIndex(_, _)
NthIndex(S, i) ==
    LET least == CHOOSE k \in S : \A j \in S : k <= j
    IN  IF i = 1 THEN least ELSE NthIndex(S \ {least}, i - 1)

\* input without its leading and trailing whitespace
RECURSIVE TrimLeft(_)
TrimLeft(s) == IF s # <<>> /\ Head(s) \in Whitespace THEN TrimLeft(Tail(s)) ELSE s
RECURSIVE TrimRight(_)
TrimRight(s) ==
    IF s # <<>> /\ s[Len(s)] \in Whitespace THEN TrimRight(SubSeq(s, 1, Len(s) - 1)) ELSE s
Trim(s) == TrimRight(TrimLeft(s))

IsIdentifierByte(c) == c \in Letters \cup Digits \cup {"_"}
IsRun(s) == s # <<>> /\ \A k \in 1..Len(s) : IsIdentifierByte(s[k])

\* the token each keyword phrase stands for
PhraseToken(phrase) ==
    CASE phrase = <<"c","r","e","a","t","e"," ","t","a","b","l","e">> -> CreateTable
      [] phrase = <<"i","n","t">> -> Int
      [] phrase = <<"i","n","t","e","g","e","r">> -> Int
      [] phrase = <<"j","s","o","n">> -> Json
      [] phrase = <<"v","a","r","c","h","a","r">> -> Varchar
      [] phrase = <<"d","a","t","e">> -> Date
      [] phrase = <<"n","o","t"," ","n","u","l","l">> -> NotNull

IsPhrase(s) ==
    s \in { <<"c","r","e","a","t","e"," ","t","a","b","l","e">>, <<"i","n","t">>,
            <<"i","n","t","e","g","e","r">>, <<"j","s","o","n">>,
            <<"v","a","r","c","h","a","r">>, <<"d","a","t","e">>,
            <<"n","o","t"," ","n","u","l","l">> }

\* the bytes no token may hold: not whitespace, not a symbol, not an
\* identifier byte
IsInvalidByte(c) ==
    c \notin Whitespace \cup {"(", ")", ",", ";"} /\ ~IsIdentifierByte(c)

InvalidPositions(s) == {p \in 0..(Len(s) - 1) : IsInvalidByte(At(s, p))}

\* the textual rendering of a column type in the schema model
TypeName(type) ==
    CASE type = ColumnType_Int -> <<"I","n","t">>
      [] type = ColumnType_Json -> <<"J","s","o","n">>
      [] type = ColumnType_Varchar -> <<"V","a","r","c","h","a","r">>
      [] type = ColumnType_Date -> <<"D","a","t","e">>

ExpectedTable(d) ==
    [name |-> d.name,
     fields |-> [k \in 1..Len(d.cols) |->
                    [name |-> d.cols[k].name, field_type |-> TypeName(d.cols[k].type)]]]

-----------------------------------------------------------------------------
(* The properties. *)

\* C1: every statement of the grammar, under every layout of whitespace,
\* passes the three stages and yields the table with its name and one field
\* per declared column, in declaration order, each with the column's name and
\* the rendering of its type.
C1_StatementYieldsTable ==
    (stmt # None /\ pc = "done") => table = ExpectedTable(stmt[1])

\* C2: in the token sequence Lexer::run returns, an identifier whose run is
\* directly followed by a comma in the input is directly followed by a Comma
\* token, and no identifier holds a comma.
C2_IdentifierThenComma ==
    lexed.kind = "Ok" =>
        \A i \in 1..Len(tokens) :
            tokens[i].type = "Text" =>
                LET after == starts[i] + Len(tokens[i].text)
                IN  /\ \A k \in 1..Len(tokens[i].text) : tokens[i].text[k] # ","
                    /\ (after < Len(input) /\ At(input, after) = ",") =>
                           (i < Len(tokens) /\ tokens[i + 1] = Comma)

\* C3: when the input holds a byte that is neither whitespace, nor a symbol,
\* nor an identifier byte, Lexer::run returns the Invalid error of the first
\* such byte, and no tokens.
C3_InvalidByteFails ==
    (lexed.kind # "None" /\ InvalidPositions(input) # {}) =>
        LET first == CHOOSE p \in InvalidPositions(input) :
                         \A q \in InvalidPositions(input) : p <= q
        IN  lexed = InvalidError(At(input, first))

\* C4: Parser::run returns an AST or a ParseError and never aborts; where the
\* tokens stop being the beginning of a sentence the error is UnexpectedToken
\* of the offending token, and where they run out before the sentence is
\* complete the error is Eof.
C4_ParseErrorReturned ==
    parsed.kind # "None" =>
        /\ parsed.kind \in {"Ok", "Err"}
        /\ LET k == ViableLength(tokens)
           IN  GrammarState(tokens, k) # "end" =>
                   IF k < Len(tokens) THEN parsed = UnexpectedToken(tokens[k + 1])
                   ELSE parsed = Eof

\* C5: a token sequence with a column declaration that no Comma follows fails
\* with UnexpectedToken or Eof, and yields no AST.
C5_MissingCommaFails ==
    (parsed.kind # "None" /\ LacksComma(tokens)) =>
        (parsed.kind = "Err" /\ parsed.error \in {"UnexpectedToken", "Eof"})

\* C6: in the AST of a parsed statement the i-th column node has null = FALSE
\* exactly when NotNull stands directly after the type token of the i-th
\* column declaration, and there is one column node per declaration.
C6_Nullability ==
    parsed.kind = "Ok" =>
        LET columns == AstColumns(parsed.ast)
            types == TypeIndexes(tokens)
        IN  /\ Len(columns) = Cardinality(types)
            /\ \A i \in 1..Len(columns) :
                   columns[i].null = (tokens[NthIndex(types, i) + 1] # NotNull)

C6_Witness ==
    /\ parsed.kind = "Ok"
    /\ Len(AstColumns(parsed.ast)) = 2
    /\ AstColumns(parsed.ast)[1].null = FALSE
    /\ AstColumns(parsed.ast)[2].null = TRUE
    /\ tokens[6] = NotNull

\* C7: an input that is one keyword phrase in any upper/lower-case spelling,
\* with any whitespace around it, tokenizes to the one token of that phrase;
\* the whitespace yields no token.
C7_CaseInsensitiveKeywords ==
    (lexed.kind # "None" /\ IsPhrase(LowerText(Trim(input)))) =>
        lexed = LexOk(<<PhraseToken(LowerText(Trim(input)))>>)

C7_Witness ==
    /\ lexed = LexOk(<<NotNull>>)
    /\ input = <<"\n", "\t", "n", "O", "t", " ", "N", "u", "L", "l", " ">>

\* C8: an input that is one run of identifier bytes, with any whitespace
\* around it, and is not a spelling of a keyword, tokenizes to one Identifier
\* holding the whole run.
C8_RunIsOneIdentifier ==
    (lexed.kind # "None" /\ IsRun(Trim(input)) /\ ~IsPhrase(LowerText(Trim(input)))) =>
        lexed = LexOk(<<Text(Trim(input))>>)

\* C9: Lexer::run never aborts, and the cursor stays within 0..=len+1.
C9_LexerTotal ==
    /\ lexed.kind # "Panic"
    /\ pos <= Len(input) + 1

\* C10: Parser::run yields an AST exactly for the sentences of the grammar:
\* for every sentence, and for no other token sequence.
C10_GrammarExact ==
    parsed.kind # "None" => ((parsed.kind = "Ok") <=> IsSentence(tokens))

=============================================================================
